---- MODULE Spec2Model ----
(***************************************************************************)
(* A model of nonstd::string_utils (src/string_utils.h): the comparator    *)
(* (starts_with / ends_with over detail::compare), the token splitters,    *)
(* split_first, the fixed-width ascii::split and replace.                  *)
(*                                                                         *)
(* One behaviour is one call: Init draws the function and its arguments,   *)
(* and every action is one statement group or one loop iteration of the    *)
(* called function.  std::size_t is W bits wide (arithmetic modulo Word),  *)
(* npos is the all-ones value.  A byte is an element of Byte; a            *)
(* std::string_view into sv is a record [off, len]; a std::string is the   *)
(* sequence of its bytes.                                                  *)
(***************************************************************************)
EXTENDS Integers, Sequences, FiniteSets, TLC

\* ---------------------------------------------------------------- bounds
\* Longest subject.
MaxLen == 4
\* Longest token / search_token / replace_token.
MaxTok == 2
\* Width of std::size_t in the model, in bits.
W == 4
\* Loop iterations after which a scanning loop is no longer followed.
MaxIter == 8

Word == 2 ^ W
NPOS == Word - 1

\* The byte values strings are made of, and what a read outside a buffer may
\* find (any byte, or the NUL that ends a std::string's storage).
Byte == {1, 2}
MemByte == Byte \cup {0}

Str(n) == UNION {[1..m -> Byte] : m \in 0..n}

Min(x, y) == IF x < y THEN x ELSE y
SetMin(S) == CHOOSE x \in S : \A y \in S : x <= y

\* std::size_t arithmetic.
Add(x, y) == (x + y) % Word
Sub(x, y) == (x - y + Word) % Word
Mul(x, y) == (x * y) % Word

VARIABLES
  op,               \* the function called
  pc,               \* the position in it
  sv,               \* the subject
  test,             \* starts_with / ends_with: the tested sequence
  token,            \* split*, split_first*: token; replace: search_token
  replace_token,
  keep_empty_parts,
  character_count, skip,
  a, b,             \* detail::compare: iterator offsets from (r)begin
  rd_sv, rd_test,   \* offsets detail::compare has dereferenced (history)
  start, i,         \* split loops: start, i; ascii::split: i
  parts,            \* the vector being built (parts / v) or the returned tuple
  positions, pos,   \* replace: match positions, scan result
  result, result_it, source_it, pidx,   \* replace: reconstruction
  ret,              \* starts_with / ends_with: the returned bool
  iters             \* loop iterations executed so far (history)

inputs == <<op, sv, test, token, replace_token, keep_empty_parts, character_count, skip>>
cmpvars == <<a, b, rd_sv, rd_test, ret>>
splitvars == <<start, i, parts>>
replvars == <<positions, pos, result, result_it, source_it, pidx>>
vars == <<inputs, pc, cmpvars, splitvars, replvars, iters>>

CompareOps == {"starts_with", "ends_with"}
SplitOps == {"split", "split_copy"}
FirstOps == {"split_first", "split_first_copy"}
Ops == CompareOps \cup SplitOps \cup FirstOps \cup {"replace", "ascii_split"}

\* ------------------------------------------------- std::string_view helpers
\* s[p .. p+len(t)) == t, offsets from 0.
MatchAt(s, t, p) ==
  /\ p + Len(t) <= Len(s)
  /\ \A j \in 1..Len(t) : s[p + j] = t[j]

\* std::string_view::find(t, from): the smallest offset >= from at which t
\* occurs, npos when there is none or from > size(); an empty t is found at
\* from itself.
Find(s, t, from) ==
  IF from > Len(s) THEN NPOS
  ELSE LET cand == {p \in from..(Len(s) - Len(t)) : MatchAt(s, t, p)}
       IN  IF cand = {} THEN NPOS ELSE SetMin(cand)

\* sv.substr(p, n): the view of min(n, size() - p) bytes at offset p.  (p >
\* size() throws std::out_of_range; SubstrInRange below checks that no call
\* site gets there.)
Substr(p, n) ==
  [off |-> p, len |-> IF p > Len(sv) THEN 0 ELSE Min(n, Len(sv) - p)]

\* The bytes a view refers to.
Bytes(v) == SubSeq(sv, v.off + 1, v.off + v.len)

\* The vector element types the split templates are instantiated with.
ElemOf(o) == IF o \in {"split", "split_first"} THEN "string_view" ELSE "string"

\* T{view}: emplace_back / tuple construction from a view.
Make(o, v) == IF ElemOf(o) = "string_view" THEN v ELSE Bytes(v)

\* The byte content of a returned element.
Content(o, x) == IF ElemOf(o) = "string_view" THEN Bytes(x) ELSE x
Contents(o, xs) == [n \in 1..Len(xs) |-> Content(o, xs[n])]

\* ------------------------------------------------------------------ Init
Init ==
  /\ op \in Ops
  /\ pc = "call"
  /\ sv \in Str(MaxLen)
  /\ test \in (IF op \in CompareOps THEN Str(MaxLen) ELSE {<<>>})
  /\ token \in (IF op \in SplitOps \cup FirstOps \cup {"replace"} THEN Str(MaxTok) ELSE {<<>>})
  /\ replace_token \in (IF op = "replace" THEN Str(MaxTok) ELSE {<<>>})
  /\ keep_empty_parts \in (IF op \in SplitOps THEN BOOLEAN ELSE {TRUE})
  /\ character_count \in (IF op = "ascii_split" THEN 0..(Word - 1) ELSE {0})
  /\ skip \in (IF op = "ascii_split" THEN 0..(Word - 1) ELSE {0})
  /\ a = 0 /\ b = 0 /\ rd_sv = {} /\ rd_test = {} /\ ret = FALSE
  /\ start = 0 /\ i = 0 /\ parts = <<>>
  /\ positions = <<>> /\ pos = 0 /\ result = <<>>
  /\ result_it = 0 /\ source_it = 0 /\ pidx = 0
  /\ iters = 0

\* ------------------------------------------------------------- Comparator
\* ends_with hands detail::compare reverse iterators.
Reverse == op = "ends_with"
\* last, as an offset from the first iterator of test.
last == Len(test)

\* The element an iterator k steps from begin (rbegin when rev) refers to.
At(s, k, rev) == IF rev THEN s[Len(s) - k] ELSE s[k + 1]

\* What dereferencing that iterator can yield: the element, or, at end() /
\* rend() and beyond, whatever the memory next to the buffer holds.
Deref(s, k, rev) == IF k < Len(s) THEN {At(s, k, rev)} ELSE MemByte

\* starts_with, lines 149-151: the guard, then the call of detail::compare.
starts_with ==
  /\ pc = "call" /\ op = "starts_with"
  /\ IF sv = <<>> \/ test = <<>> \/ Len(test) > Len(sv)
       THEN ret' = FALSE /\ pc' = "done"
       ELSE ret' = ret /\ pc' = "compare"
  /\ UNCHANGED <<inputs, a, b, rd_sv, rd_test, splitvars, replvars, iters>>

\* ends_with, lines 157-159.
ends_with ==
  /\ pc = "call" /\ op = "ends_with"
  /\ IF sv = <<>> \/ test = <<>> \/ Len(test) > Len(sv)
       THEN ret' = FALSE /\ pc' = "done"
       ELSE ret' = ret /\ pc' = "compare"
  /\ UNCHANGED <<inputs, a, b, rd_sv, rd_test, splitvars, replvars, iters>>

\* detail::compare, lines 26-27: if (*a != *b) return false;
compare_first ==
  /\ pc = "compare"
  /\ rd_sv' = rd_sv \cup {a}
  /\ rd_test' = rd_test \cup {b}
  /\ \E x \in Deref(sv, a, Reverse), y \in Deref(test, b, Reverse) :
       IF x # y THEN ret' = FALSE /\ pc' = "done"
                ELSE ret' = ret /\ pc' = "compare_loop"
  /\ UNCHANGED <<inputs, a, b, splitvars, replvars, iters>>

\* A loop that compares before it advances: while (b != last && *a++ == *b++);
compare_loop_postincrement ==
  /\ pc = "compare_loop"
  /\ IF b = last
       THEN /\ pc' = "compare_exit"
            /\ UNCHANGED <<a, b, rd_sv, rd_test>>
       ELSE /\ a' = a + 1
            /\ b' = b + 1
            /\ rd_sv' = rd_sv \cup {a}
            /\ rd_test' = rd_test \cup {b}
            /\ \E x \in Deref(sv, a, Reverse), y \in Deref(test, b, Reverse) :
                 pc' = IF x = y THEN "compare_loop" ELSE "compare_exit"
  /\ iters' = iters + 1
  /\ UNCHANGED <<inputs, ret, splitvars, replvars>>

\* detail::compare, line 29, one evaluation of the loop condition:
\*   while (b != last && *(++a) == *(++b));
\* b != last is tested first; then both iterators advance and are
\* dereferenced, also when the advance brought b to last.  A dereference
\* outside the buffer is undefined: it yields some byte, or the access
\* faults (an unmapped page, a sanitizer build).
compare_loop ==
  /\ pc = "compare_loop"
  /\ IF b = last
       THEN /\ pc' = "compare_exit"
            /\ UNCHANGED <<a, b, rd_sv, rd_test>>
       ELSE /\ a' = a + 1
            /\ b' = b + 1
            /\ rd_sv' = rd_sv \cup {a'}
            /\ rd_test' = rd_test \cup {b'}
            /\ \/ \E x \in Deref(sv, a', Reverse), y \in Deref(test, b', Reverse) :
                    pc' = IF x = y THEN "compare_loop" ELSE "compare_exit"
               \/ (a' >= Len(sv) \/ b' >= Len(test)) /\ pc' = "fault"
  /\ iters' = iters + 1
  /\ UNCHANGED <<inputs, ret, splitvars, replvars>>

\* detail::compare, lines 31-34: return b == last.
compare_exit ==
  /\ pc = "compare_exit"
  /\ ret' = (b = last)
  /\ pc' = "done"
  /\ UNCHANGED <<inputs, a, b, rd_sv, rd_test, splitvars, replvars, iters>>

\* --------------------------------------------------------------- Splitter
\* split / split_copy, lines 166-168 / 175-177, and the first three lines of
\* the detail function they pick (40-42 / 57-59).
split_dispatch ==
  /\ pc = "call" /\ op \in SplitOps
  /\ start' = 0
  /\ i' = Find(sv, token, 0)
  /\ parts' = <<>>
  /\ pc' = IF keep_empty_parts THEN "keep_empty" ELSE "ignore_empty"
  /\ UNCHANGED <<inputs, cmpvars, replvars, iters>>

\* A scan that resumes one byte after the match start instead of after the
\* whole token.
split_keep_empty_loop_overlap ==
  /\ pc = "keep_empty" /\ i # NPOS /\ iters < MaxIter
  /\ parts' = Append(parts, Make(op, Substr(start, Sub(i, start))))
  /\ start' = Add(i, 1)
  /\ i' = Find(sv, token, start')
  /\ iters' = iters + 1
  /\ UNCHANGED <<inputs, pc, cmpvars, replvars>>

\* detail::split_keep_empty, lines 44-48: one iteration of the loop.
split_keep_empty_loop ==
  /\ pc = "keep_empty" /\ i # NPOS /\ iters < MaxIter
  /\ parts' = Append(parts, Make(op, Substr(start, Sub(i, start))))
  /\ start' = Add(i, Len(token))
  /\ i' = Find(sv, token, start')
  /\ iters' = iters + 1
  /\ UNCHANGED <<inputs, pc, cmpvars, replvars>>

\* detail::split_keep_empty, lines 49-51: the tail, always emitted.
split_keep_empty_return ==
  /\ pc = "keep_empty" /\ i = NPOS
  /\ parts' = Append(parts, Make(op, Substr(start, NPOS)))
  /\ pc' = "done"
  /\ UNCHANGED <<inputs, start, i, cmpvars, replvars, iters>>

\* An ignore-empty loop that forgets the length test.
split_ignore_empty_loop_unfiltered ==
  /\ pc = "ignore_empty" /\ i # NPOS /\ iters < MaxIter
  /\ parts' = Append(parts, Make(op, Substr(start, Sub(i, start))))
  /\ start' = Add(i, Len(token))
  /\ i' = Find(sv, token, start')
  /\ iters' = iters + 1
  /\ UNCHANGED <<inputs, pc, cmpvars, replvars>>

\* detail::split_ignore_empty, lines 61-66: one iteration of the loop.
split_ignore_empty_loop ==
  /\ pc = "ignore_empty" /\ i # NPOS /\ iters < MaxIter
  /\ LET len == Sub(i, start)
     IN  parts' = IF len > 0 THEN Append(parts, Make(op, Substr(start, len)))
                             ELSE parts
  /\ start' = Add(i, Len(token))
  /\ i' = Find(sv, token, start')
  /\ iters' = iters + 1
  /\ UNCHANGED <<inputs, pc, cmpvars, replvars>>

\* detail::split_ignore_empty, lines 67-70: the tail, when not empty.
split_ignore_empty_return ==
  /\ pc = "ignore_empty" /\ i = NPOS
  /\ parts' = IF Sub(Len(sv), start) > 0
                THEN Append(parts, Make(op, Substr(start, NPOS)))
                ELSE parts
  /\ pc' = "done"
  /\ UNCHANGED <<inputs, start, i, cmpvars, replvars, iters>>

\* detail::split_keep_empty as a function of its arguments: the loop of
\* lines 44-48 entered with start = st, then line 49; the parts' bytes.
RECURSIVE split_keep_empty_from(_, _, _)
split_keep_empty_from(s, t, st) ==
  LET f == Find(s, t, st)
  IN  IF f = NPOS
        THEN <<SubSeq(s, st + 1, Len(s))>>
        ELSE <<SubSeq(s, st + 1, f)>> \o split_keep_empty_from(s, t, Add(f, Len(t)))

split_keep_empty(s, t) == split_keep_empty_from(s, t, 0)

\* ------------------------------------------------------------ split_first
\* The default-constructed std::string_view of `{sv, {}}`.
EmptyView == [off |-> 0, len |-> 0]

\* split_first, lines 184-188.
split_first ==
  /\ pc = "call" /\ op = "split_first"
  /\ LET f == Find(sv, token, 0)
     IN  parts' = IF f # NPOS
                    THEN <<Substr(0, f), Substr(Add(f, Len(token)), NPOS)>>
                    ELSE <<Substr(0, NPOS), EmptyView>>
  /\ pc' = "done"
  /\ UNCHANGED <<inputs, start, i, cmpvars, replvars, iters>>

\* A copy variant whose suffix starts one byte after the match start.
split_first_copy_offbyone ==
  /\ pc = "call" /\ op = "split_first_copy"
  /\ LET f == Find(sv, token, 0)
     IN  parts' = IF f # NPOS
                    THEN <<Bytes(Substr(0, f)), Bytes(Substr(Add(f, 1), NPOS))>>
                    ELSE <<sv, <<>> >>
  /\ pc' = "done"
  /\ UNCHANGED <<inputs, start, i, cmpvars, replvars, iters>>

\* split_first_copy, lines 195-199.
split_first_copy ==
  /\ pc = "call" /\ op = "split_first_copy"
  /\ LET f == Find(sv, token, 0)
     IN  parts' = IF f # NPOS
                    THEN <<Bytes(Substr(0, f)), Bytes(Substr(Add(f, Len(token)), NPOS))>>
                    ELSE <<sv, <<>> >>
  /\ pc' = "done"
  /\ UNCHANGED <<inputs, start, i, cmpvars, replvars, iters>>

\* ---------------------------------------------------------------- Chunker
\* ascii::split, lines 122-127.
ascii_split ==
  /\ pc = "call" /\ op = "ascii_split"
  /\ parts' = <<>>
  /\ i' = 0
  /\ pc' = IF character_count = 0 THEN "done" ELSE "chunk"
  /\ UNCHANGED <<inputs, start, cmpvars, replvars, iters>>

\* A loop that forgets the skip.
ascii_split_loop_noskip ==
  /\ pc = "chunk" /\ i < Len(sv) /\ iters < MaxIter
  /\ parts' = Append(parts, Substr(i, character_count))
  /\ i' = Add(i, character_count)
  /\ iters' = iters + 1
  /\ UNCHANGED <<inputs, pc, start, cmpvars, replvars>>

\* ascii::split, lines 128-131: one iteration of the loop.
ascii_split_loop ==
  /\ pc = "chunk" /\ i < Len(sv) /\ iters < MaxIter
  /\ parts' = Append(parts, Substr(i, character_count))
  /\ i' = Add(i, Add(character_count, skip))
  /\ iters' = iters + 1
  /\ UNCHANGED <<inputs, pc, start, cmpvars, replvars>>

\* ascii::split, lines 128 and 133: the loop condition fails, return v.
ascii_split_return ==
  /\ pc = "chunk" /\ ~(i < Len(sv))
  /\ pc' = "done"
  /\ UNCHANGED <<inputs, cmpvars, splitvars, replvars, iters>>

\* --------------------------------------------------------------- Replacer
\* std::copy of src to dst starting at offset at.  (Writing past the end of
\* dst is undefined; CopiesInRange below checks that no call does.)
CopyInto(dst, at, src) ==
  [n \in 1..Len(dst) |-> IF at < n /\ n <= at + Len(src) THEN src[n - at] ELSE dst[n]]

\* replace, lines 206-207.
replace ==
  /\ pc = "call" /\ op = "replace"
  /\ positions' = <<>>
  /\ pos' = Find(sv, token, 0)
  /\ pc' = "scan"
  /\ UNCHANGED <<inputs, cmpvars, splitvars, result, result_it, source_it, pidx, iters>>

\* A pre-scan that resumes one byte too far after a match.
replace_scan_skipone ==
  /\ pc = "scan" /\ pos # NPOS /\ iters < MaxIter
  /\ positions' = Append(positions, pos)
  /\ pos' = Find(sv, token, Add(Add(pos, Len(token)), 1))
  /\ iters' = iters + 1
  /\ UNCHANGED <<inputs, pc, cmpvars, splitvars, result, result_it, source_it, pidx>>

\* replace, lines 208-211: one iteration of the pre-scan.
replace_scan ==
  /\ pc = "scan" /\ pos # NPOS /\ iters < MaxIter
  /\ positions' = Append(positions, pos)
  /\ pos' = Find(sv, token, Add(pos, Len(token)))
  /\ iters' = iters + 1
  /\ UNCHANGED <<inputs, pc, cmpvars, splitvars, result, result_it, source_it, pidx>>

\* replace, lines 212-219: the fast path, or the exactly sized result
\* (resize value-initialises it) and the two cursors.
replace_resize ==
  /\ pc = "scan" /\ pos = NPOS
  /\ IF positions = <<>>
       THEN /\ result' = sv
            /\ pc' = "done"
            /\ UNCHANGED <<result_it, source_it, pidx>>
       ELSE /\ LET n == Len(positions)
                   size == Add(Sub(Len(sv), Mul(Len(token), n)), Mul(Len(replace_token), n))
               IN  result' = [k \in 1..size |-> 0]
            /\ result_it' = 0
            /\ source_it' = 0
            /\ pidx' = 1
            /\ pc' = "build"
  /\ UNCHANGED <<inputs, cmpvars, splitvars, positions, pos, iters>>

\* A reconstruction that moves the source cursor one byte past the match
\* start instead of past the matched span.
replace_build_offbyone ==
  /\ pc = "build" /\ pidx <= Len(positions)
  /\ LET p == positions[pidx]
         span == SubSeq(sv, source_it + 1, p)
         r1 == CopyInto(result, result_it, span)
         it1 == result_it + Len(span)
     IN  /\ result' = CopyInto(r1, it1, replace_token)
         /\ result_it' = it1 + Len(replace_token)
         /\ source_it' = Add(p, 1)
  /\ pidx' = pidx + 1
  /\ UNCHANGED <<inputs, pc, cmpvars, splitvars, positions, pos, iters>>

\* replace, lines 220-224: one iteration of the reconstruction loop.
replace_build ==
  /\ pc = "build" /\ pidx <= Len(positions)
  /\ LET p == positions[pidx]
         span == SubSeq(sv, source_it + 1, p)
         r1 == CopyInto(result, result_it, span)
         it1 == result_it + Len(span)
     IN  /\ result' = CopyInto(r1, it1, replace_token)
         /\ result_it' = it1 + Len(replace_token)
         /\ source_it' = Add(p, Len(token))
  /\ pidx' = pidx + 1
  /\ UNCHANGED <<inputs, pc, cmpvars, splitvars, positions, pos, iters>>

\* replace, lines 225-229: the tail, then return result.
replace_return ==
  /\ pc = "build" /\ pidx > Len(positions)
  /\ result' = IF result_it # Len(result)
                 THEN CopyInto(result, result_it, SubSeq(sv, source_it + 1, Len(sv)))
                 ELSE result
  /\ pc' = "done"
  /\ UNCHANGED <<inputs, cmpvars, splitvars, positions, pos, result_it, source_it, pidx, iters>>

\* ------------------------------------------------------------------- Spec
Next ==
  \/ starts_with
  \/ ends_with
  \/ compare_first
  \/ compare_loop
  \/ compare_exit
  \/ split_dispatch
  \/ split_keep_empty_loop
  \/ split_keep_empty_return
  \/ split_ignore_empty_loop
  \/ split_ignore_empty_return
  \/ split_first
  \/ split_first_copy
  \/ ascii_split
  \/ ascii_split_loop
  \/ ascii_split_return
  \/ replace
  \/ replace_scan
  \/ replace_resize
  \/ replace_build
  \/ replace_return

Spec == Init /\ [][Next]_vars

\* ------------------------------------------------------ model consistency
TypeOK ==
  /\ op \in Ops
  /\ pc \in {"call", "compare", "compare_loop", "compare_exit", "keep_empty",
             "ignore_empty", "chunk", "scan", "build", "done", "fault"}
  /\ sv \in Str(MaxLen)
  /\ i \in 0..(Word - 1) /\ start \in 0..(Word - 1) /\ pos \in 0..(Word - 1)
  /\ ret \in BOOLEAN
  /\ iters \in 0..MaxIter

\* No substr call gets a position past the end of sv (std::out_of_range).
SubstrInRange ==
  pc \in {"keep_empty", "ignore_empty"} => start <= Len(sv)

\* No std::copy of replace writes outside result.
CopiesInRange ==
  pc \in {"build", "done"} /\ op = "replace" => result_it <= Len(result)

\* The step-wise keep-empty loop computes what split_keep_empty does.
KeepEmptyAgrees ==
  (pc = "done" /\ op \in SplitOps /\ keep_empty_parts)
    => Contents(op, parts) = split_keep_empty(sv, token)

\* ------------------------------------------------- reference definitions
\* t occurs in s.
Occurs(t, s) == \E p \in 0..(Len(s) - Len(t)) : MatchAt(s, t, p)

Drop(s, n) == SubSeq(s, n + 1, Len(s))

\* The number of occurrences of a non-empty t in s, found left to right
\* without overlap.
RECURSIVE CountOcc(_, _)
CountOcc(s, t) ==
  IF Len(s) < Len(t) THEN 0
  ELSE IF MatchAt(s, t, 0) THEN 1 + CountOcc(Drop(s, Len(t)), t)
  ELSE CountOcc(Drop(s, 1), t)

\* s with those occurrences replaced by r, every other byte kept.
RECURSIVE RefReplace(_, _, _)
RefReplace(s, t, r) ==
  IF Len(s) < Len(t) THEN s
  ELSE IF MatchAt(s, t, 0) THEN r \o RefReplace(Drop(s, Len(t)), t, r)
  ELSE <<s[1]>> \o RefReplace(Drop(s, 1), t, r)

\* The strings ps joined with t between consecutive ones.
RECURSIVE Join(_, _)
Join(ps, t) ==
  IF ps = <<>> THEN <<>>
  ELSE IF Len(ps) = 1 THEN ps[1]
  ELSE ps[1] \o t \o Join(Tail(ps), t)

RECURSIVE Concat(_)
Concat(ps) == IF ps = <<>> THEN <<>> ELSE ps[1] \o Concat(Tail(ps))

CeilDiv(x, y) == (x + y - 1) \div y

Returned == pc = "done"

\* ----------------------------------------------------------------- claims
\* C1: for a non-empty search token, replace returns the reference result
\* (the left-to-right non-overlapping occurrences replaced, every other byte
\* copied in order), of length len(S) - n*len(T) + n*len(R), and a copy of S
\* when n = 0.
C1_ReplaceIsReference ==
  (Returned /\ op = "replace" /\ token # <<>>) =>
    LET n == CountOcc(sv, token)
    IN  /\ result = RefReplace(sv, token, replace_token)
        /\ Len(result) = Len(sv) - n * Len(token) + n * Len(replace_token)
        /\ Len(positions) = n
        /\ (n = 0 => result = sv)

C1_Witness ==
  /\ Returned /\ op = "replace"
  /\ Len(token) = 2 /\ Len(replace_token) = 1
  /\ Len(positions) = 2
  /\ result # sv

\* C2: for a non-empty token, the keep-empty split returns k+1 parts in
\* document order, k the number of non-overlapping occurrences of the token,
\* and the parts joined with the token are the subject.
C2_SplitRoundTrip ==
  (Returned /\ op \in SplitOps /\ keep_empty_parts /\ token # <<>>) =>
    /\ Len(parts) = CountOcc(sv, token) + 1
    /\ Join(Contents(op, parts), token) = sv
    /\ op = "split" =>
         /\ parts[1].off = 0
         /\ \A n \in 1..(Len(parts) - 1) :
              parts[n + 1].off = parts[n].off + parts[n].len + Len(token)

C2_Witness ==
  /\ Returned /\ op \in SplitOps /\ keep_empty_parts
  /\ Len(token) = 2
  /\ Len(parts) = 3
  /\ Occurs(token \o token, sv)

\* C3 as stated: when R does not contain T, the output of replace contains
\* no occurrence of T, seams included.
C3_NoTokenRemains ==
  (Returned /\ op = "replace" /\ token # <<>> /\ ~Occurs(token, replace_token)) =>
    ~Occurs(token, result)

\* Where the k-th replacement starts and ends in the output.
SeamsOf(k) ==
  LET at == positions[k] + (k - 1) * Len(replace_token) - (k - 1) * Len(token)
  IN  {at, at + Len(replace_token)}
Seams == UNION {SeamsOf(k) : k \in 1..Len(positions)}

\* C3 as amended: when R does not contain T, every occurrence of T in the
\* output straddles a seam (a boundary between copied text and a
\* replacement lies strictly inside it): none lies within one copied span or
\* within one replacement.
C3_TokenOnlyAcrossSeams ==
  (Returned /\ op = "replace" /\ token # <<>> /\ ~Occurs(token, replace_token)) =>
    \A o \in 0..(Len(result) - Len(token)) :
      MatchAt(result, token, o) =>
        \E x \in Seams : o < x /\ x < o + Len(token)

C3_Witness ==
  /\ Returned /\ op = "replace" /\ token # <<>>
  /\ ~Occurs(token, replace_token)
  /\ positions # <<>>
  /\ Occurs(token, result)

\* C4 as stated: with an empty token the scanning loops of split, split_copy
\* and replace end.  A scan that ends visits each cursor position 0..len(S)
\* at most once, so it runs at most len(S) + 1 iterations and its list holds
\* at most len(S) + 1 entries.
C4_EmptyTokenScanEnds ==
  (op \in SplitOps \cup {"replace"} /\ token = <<>>) =>
    /\ iters <= Len(sv) + 1
    /\ Len(parts) <= Len(sv) + 1
    /\ Len(positions) <= Len(sv) + 1

\* C5: starts_with (ends_with) returns true exactly when both sequences are
\* non-empty, test is no longer than sv and the first (last) len(test) bytes
\* of sv are test, whatever lies past the ends of the two buffers.
C5_CompareResult ==
  (Returned /\ op \in CompareOps) =>
    ret = ( /\ sv # <<>> /\ test # <<>> /\ Len(test) <= Len(sv)
            /\ IF op = "starts_with"
                 THEN SubSeq(sv, 1, Len(test)) = test
                 ELSE SubSeq(sv, Len(sv) - Len(test) + 1, Len(sv)) = test )

C5_Witness ==
  /\ Returned /\ op = "ends_with"
  /\ ret = TRUE
  /\ test = sv /\ Len(sv) >= 2
  /\ Len(test) \in rd_test

\* C6: the fixed-width split returns nothing for character_count = 0; for
\* character_count >= 1 and a stride character_count + skip that does not
\* wrap, ceil(len(sv) / stride) chunks, chunk j the bytes from j*stride up to
\* min(len(sv), j*stride + character_count): none empty, only the last one
\* possibly short, and with skip = 0 their concatenation is sv.  (Subjects
\* are shorter than 2^(W-1), as a view is never longer than PTRDIFF_MAX.)
C6_Chunks ==
  (Returned /\ op = "ascii_split") =>
    /\ character_count = 0 => parts = <<>>
    /\ (character_count >= 1 /\ character_count + skip < Word) =>
         LET stride == character_count + skip
             chunks == [n \in 1..Len(parts) |-> Bytes(parts[n])]
         IN  /\ Len(parts) = CeilDiv(Len(sv), stride)
             /\ \A n \in 1..Len(parts) :
                  /\ chunks[n] = SubSeq(sv, (n - 1) * stride + 1,
                                        Min(Len(sv), (n - 1) * stride + character_count))
                  /\ chunks[n] # <<>>
                  /\ n < Len(parts) => Len(chunks[n]) = character_count
             /\ skip = 0 => Concat(chunks) = sv

C6_Witness ==
  /\ Returned /\ op = "ascii_split"
  /\ character_count = 2 /\ skip = 1
  /\ Len(parts) = 2
  /\ parts[2].len = 1

\* C7: for a non-empty token, split_first and split_first_copy return the
\* pair (P, Q) with P + T + Q = S and no occurrence of T at an offset below
\* len(P) when T occurs in S, and (S, empty) when it does not.
C7_SplitFirst ==
  (Returned /\ op \in FirstOps /\ token # <<>>) =>
    LET P == Content(op, parts[1])
        Q == Content(op, parts[2])
    IN  /\ Len(parts) = 2
        /\ IF Occurs(token, sv)
             THEN /\ P \o token \o Q = sv
                  /\ \A o \in 0..(Len(P) - 1) : ~MatchAt(sv, token, o)
             ELSE P = sv /\ Q = <<>>

C7_Witness ==
  /\ Returned /\ op = "split_first_copy"
  /\ token # <<>>
  /\ parts[1] # <<>>
  /\ Occurs(token, parts[2])

\* C8: the ignore-empty split returns no empty element, and returns the
\* keep-empty result for the same subject and token with the zero-length
\* parts removed, the others in the same order.
C8_IgnoreEmptyIsFilteredKeepEmpty ==
  (Returned /\ op \in SplitOps /\ ~keep_empty_parts) =>
    LET NonEmpty(x) == x # <<>>
        got == Contents(op, parts)
    IN  /\ \A n \in 1..Len(got) : got[n] # <<>>
        /\ got = SelectSeq(split_keep_empty(sv, token), NonEmpty)

C8_Witness ==
  /\ Returned /\ op \in SplitOps /\ ~keep_empty_parts
  /\ Len(parts) = 2
  /\ Len(split_keep_empty(sv, token)) = 3

C8_WitnessOnlyTokens ==
  /\ Returned /\ op \in SplitOps /\ ~keep_empty_parts
  /\ sv # <<>> /\ parts = <<>>

\* C9 as stated: for character_count >= 1 and any skip, the cursor of the
\* fixed-width split strictly increases on every loop iteration, also when
\* character_count + skip wraps.
C9_CursorIncreases == [][ascii_split_loop => i' > i]_vars

\* C10 as stated: the comparison dereferences only the first len(test)
\* positions of test and of sv (counted from the end for ends_with), never
\* the position one past them.
C10_ReadsInBounds ==
  op \in CompareOps =>
    /\ rd_test \subseteq 0..(Len(test) - 1)
    /\ rd_sv \subseteq 0..(Len(test) - 1)

====
